---- MODULE Spec2Model ----
(***************************************************************************)
(* Streamflow visualisation: the viewport-driven synchronisation logic of   *)
(* the two StreamflowMap components.                                        *)
(*                                                                          *)
(*   direct-query mode  src/components/StreamflowMap.tsx  (SpecDirect)      *)
(*   overlay mode       src/unnamed/part_001              (SpecOverlay)     *)
(*                                                                          *)
(* Both components keep the React state  loading, lastUpdate, stats ; the   *)
(* model shares those variables between the two specifications, each of     *)
(* which leaves the other component's private state untouched.             *)
(*                                                                          *)
(* Time is in milliseconds.  JavaScript runs every handler to completion   *)
(* (up to its next await), so each action below is one such run.           *)
(***************************************************************************)
EXTENDS Integers, Sequences, FiniteSets, TLC

VARIABLES
    now,          \* wall clock, ms since the component mounted
    mapReady,     \* mapRef.current?.getMap() is non-null
    camera,       \* what map.getBounds() / map.getZoom() return right now
    moving,       \* a pan/zoom gesture is in progress (moveEnd not yet fired)
    viewport,     \* React state `viewport` (set from evt.viewState)
    timeouts,     \* the pending setTimeout / setInterval callbacks of the page
    timer,        \* the `timer` variable closed over by debounce()
    requests,     \* fetch cycles whose promise chain has not settled yet
    flowData,     \* React state `flowData`
    loading,      \* React state `loading`
    lastUpdate,   \* React state `lastUpdate`
    stats,        \* React state `stats`
    source,       \* the map's 'rivers' source: "absent", "loading", "loaded"
    listening,    \* handleMapLoad has registered its "sourcedata" listener
    error,        \* React state `error`
    referenceTime,\* React state `referenceTime`
    featureState, \* the feature-state store of the 'rivers' source
    frames,       \* the callbacks requestAnimationFrame holds, in order
    hist          \* history (ghost) record; read by the properties only

vars == <<now, mapReady, camera, moving, viewport, timeouts, timer, requests,
          flowData, loading, lastUpdate, stats, source, listening, error,
          referenceTime, featureState, frames, hist>>

\* the state only the overlay component has
liveVars == <<source, listening, error, referenceTime, featureState, frames>>

\* the state only the direct-query component has
queryVars == <<camera, moving, viewport, timer, flowData>>

----------------------------------------------------------------------------
(* Bounds of the model *)

\* the clock stops here
MaxTime == 1000
\* pan/zoom gestures the user completes
MaxSettles == 2

\* the clock advances in steps of this many ms
ClockSteps == {100}

Boxes == {1, 2}
ZoomLevels == {5, 9}
Views == [box : Boxes, zoom : ZoomLevels]

\* the feature collections the query service may answer with: streamflow_cms
\* of each feature, in the order of the response
FeatureLists == {<<>>, <<7>>, <<1500, 3>>}

----------------------------------------------------------------------------
(* Program constants *)

DEBOUNCE_MS == 300
INITIAL_FETCH_MS == 500

NoData == [kind |-> "null", gen |-> 0, features |-> <<>>]
NoTime == -1
NoTimer == 0
NoError == "<null>"

\* the feature ids (comid) present in the loaded tileset
Surface == {101, 102, 103}
NoState == [flow |-> 0, category |-> "<none>", gen |-> 0]

----------------------------------------------------------------------------
(* Helpers *)

Max(a, b) == IF a >= b THEN a ELSE b

RECURSIVE SeqMax(_)
\* Math.max(...xs) of a non-empty sequence
SeqMax(xs) ==
    IF Len(xs) = 1 THEN Head(xs) ELSE Max(Head(xs), SeqMax(Tail(xs)))

\* Adjust limit based on zoom
LimitForZoomAbove(zoom) ==
    LET l0 == 2000
        l1 == IF zoom > 8 THEN 5000 ELSE l0
        l2 == IF zoom > 10 THEN 8000 ELSE l1
    IN  IF zoom < 6 THEN 1000 ELSE l2

LimitForZoom(zoom) ==
    LET l0 == 2000
        l1 == IF zoom >= 8 THEN 5000 ELSE l0
        l2 == IF zoom >= 10 THEN 8000 ELSE l1
    IN  IF zoom < 6 THEN 1000 ELSE l2

\* the URLSearchParams built from the map's bounds and zoom
QueryParams(cam) ==
    [box |-> cam.box, zoom |-> cam.zoom, limit |-> LimitForZoom(cam.zoom)]

NoQuery == [box |-> 0, zoom |-> 0, limit |-> 0]

\* a timer handle no pending timer uses
FreshHandle ==
    CHOOSE i \in 1..(Cardinality(timeouts) + 1) : \A t \in timeouts : t.id # i

\* setTimeout: a handle, due `ms` from now
NewTimeout(id, cb, ms) == [id |-> id, cb |-> cb, due |-> now + ms]

\* clearTimeout(h)
ClearTimeout(ts, h) == {t \in ts : t.id # h}

\* the function debounce() returns, called once: the timer set is `ts`, the
\* closure's handle is `h`, the new handle is `id`
DebouncedNoClear(ts, h, id) ==
    ts \cup {NewTimeout(id, "fetchFlowDataInner", DEBOUNCE_MS)}

Debounced(ts, h, id) ==
    ClearTimeout(ts, h) \cup {NewTimeout(id, "fetchFlowDataInner", DEBOUNCE_MS)}

Pending(cb) == {t \in timeouts : t.cb = cb}

----------------------------------------------------------------------------
(* Direct-query mode: src/components/StreamflowMap.tsx *)

DirectInit ==
    /\ now = 0
    /\ mapReady = FALSE
    /\ camera = [box |-> 1, zoom |-> 9]
    /\ moving = FALSE
    /\ viewport = [box |-> 1, zoom |-> 9]
    /\ timeouts = {[id |-> 1, cb |-> "initialFetch", due |-> INITIAL_FETCH_MS]}
    /\ timer = NoTimer
    /\ requests = {}
    /\ flowData = NoData
    /\ loading = FALSE
    /\ lastUpdate = NoTime
    /\ stats = [count |-> 0, maxFlow |-> 0, gen |-> 0]
    /\ source = "absent"
    /\ listening = FALSE
    /\ error = NoError
    /\ referenceTime = NoTime
    /\ featureState = [f \in Surface |-> NoState]
    /\ frames = <<>>
    /\ hist = [settles |-> 0,         \* moveEnd events so far
               open |-> 0,            \* debounce windows open
               settled |-> FALSE,     \* a moveEnd arrived in the open window
               issued |-> 0,          \* queries issued so far
               lastQuery |-> NoQuery, \* the last query issued
               lastEnd |-> [gen |-> 0, ok |-> TRUE]]  \* the last cycle to end

\* the map instance is created
MapMount ==
    /\ ~mapReady
    /\ mapReady' = TRUE
    /\ UNCHANGED <<liveVars, now, camera, moving, viewport, timeouts, timer, requests,
                   flowData, loading, lastUpdate, stats, hist>>

\* an intermediate frame of a pan/zoom gesture: the camera is at v
CameraMove(v) ==
    /\ mapReady
    /\ hist.settles < MaxSettles
    /\ v # camera
    /\ camera' = v
    /\ moving' = TRUE
    /\ UNCHANGED <<liveVars, now, mapReady, viewport, timeouts, timer, requests,
                   flowData, loading, lastUpdate, stats, hist>>

\* the debounced fetchFlowData(), called from a handler after the timers `ts`
CallFetchFlowData(ts) ==
    LET id == FreshHandle
    IN  /\ timeouts' = Debounced(ts, timer, id)
        /\ timer' = id

\* the gesture ends: onMoveEnd(evt) with evt.viewState the camera
handleMoveEnd ==
    /\ moving
    /\ moving' = FALSE
    /\ viewport' = camera
    /\ CallFetchFlowData(timeouts)
    /\ hist' = [hist EXCEPT !.settles = @ + 1,
                            !.settled = TRUE,
                            !.open = IF Pending("fetchFlowDataInner") = {}
                                     THEN @ + 1 ELSE @]
    /\ UNCHANGED <<liveVars, now, mapReady, camera, requests, flowData, loading,
                   lastUpdate, stats>>

\* the mount effect's setTimeout(fetchFlowData, 500) comes due
InitialFetchTimer ==
    \E t \in Pending("initialFetch") :
        /\ t.due <= now
        /\ CallFetchFlowData(timeouts \ {t})
        /\ hist' = [hist EXCEPT !.open = IF Pending("fetchFlowDataInner") = {}
                                         THEN @ + 1 ELSE @]
        /\ UNCHANGED <<liveVars, now, mapReady, camera, moving, viewport, requests,
                       flowData, loading, lastUpdate, stats>>

\* fetchFlowDataInner up to its await: returns early without a map, else
\* setLoading(true) and fetch(`/api/flow?${params}`)
fetchFlowDataInnerWhenIdle ==
    IF ~mapReady \/ loading
    THEN /\ UNCHANGED <<liveVars, requests, loading>>
         /\ hist' = [hist EXCEPT !.open = @ - 1, !.settled = FALSE]
    ELSE /\ loading' = TRUE
         /\ requests' = requests \cup
                {[gen |-> hist.issued + 1, stage |-> "fetch", status |-> 0]}
         /\ hist' = [hist EXCEPT !.open = @ - 1, !.settled = FALSE,
                                 !.issued = @ + 1,
                                 !.lastQuery = QueryParams(camera)]

fetchFlowDataInner ==
    IF ~mapReady
    THEN /\ UNCHANGED <<liveVars, requests, loading>>
         /\ hist' = [hist EXCEPT !.open = @ - 1, !.settled = FALSE]
    ELSE /\ loading' = TRUE
         /\ requests' = requests \cup
                {[gen |-> hist.issued + 1, stage |-> "fetch", status |-> 0]}
         /\ hist' = [hist EXCEPT !.open = @ - 1, !.settled = FALSE,
                                 !.issued = @ + 1,
                                 !.lastQuery = QueryParams(camera)]

\* a debounce timer comes due and runs fetchFlowDataInner
DebounceTimer ==
    \E t \in Pending("fetchFlowDataInner") :
        /\ t.due <= now
        /\ timeouts' = timeouts \ {t}
        /\ fetchFlowDataInner
        /\ UNCHANGED <<liveVars, now, mapReady, camera, moving, viewport, timer,
                       flowData, lastUpdate, stats>>

\* `await fetch(...)` resolves with an HTTP response (fetch resolves on any
\* status; the code does not look at response.ok)
FetchResolve(r, status) ==
    /\ r \in requests
    /\ r.stage = "fetch"
    /\ requests' = (requests \ {r}) \cup
                       {[r EXCEPT !.stage = "json", !.status = status]}
    /\ UNCHANGED <<liveVars, now, mapReady, camera, moving, viewport, timeouts, timer,
                   flowData, loading, lastUpdate, stats, hist>>

\* catch (error) { console.error } finally { setLoading(false) }
CatchFinally(r) ==
    /\ loading' = FALSE
    /\ requests' = requests \ {r}
    /\ hist' = [hist EXCEPT !.lastEnd = [gen |-> r.gen, ok |-> FALSE]]

\* `await fetch(...)` rejects: transport failure
FetchReject(r) ==
    /\ r \in requests
    /\ r.stage = "fetch"
    /\ CatchFinally(r)
    /\ UNCHANGED <<liveVars, now, mapReady, camera, moving, viewport, timeouts, timer,
                   flowData, lastUpdate, stats>>

\* `await response.json()` rejects: the body is not JSON
JsonReject(r) ==
    /\ r \in requests
    /\ r.stage = "json"
    /\ CatchFinally(r)
    /\ UNCHANGED <<liveVars, now, mapReady, camera, moving, viewport, timeouts, timer,
                   flowData, lastUpdate, stats>>

\* `await response.json()` resolves with a FeatureCollection (status 200):
\* setFlowData, setLastUpdate, the stats, finally setLoading(false)
JsonResolveData(r, fs) ==
    /\ r \in requests
    /\ r.stage = "json"
    /\ r.status = 200
    /\ flowData' = [kind |-> "FeatureCollection", gen |-> r.gen, features |-> fs]
    /\ lastUpdate' = now
    /\ stats' = IF Len(fs) > 0
                THEN [count |-> Len(fs), maxFlow |-> SeqMax(fs), gen |-> r.gen]
                ELSE stats
    /\ loading' = FALSE
    /\ requests' = requests \ {r}
    /\ hist' = [hist EXCEPT !.lastEnd = [gen |-> r.gen, ok |-> TRUE]]
    /\ UNCHANGED <<liveVars, now, mapReady, camera, moving, viewport, timeouts, timer>>

\* `await response.json()` resolves with the route's {error: string} body
\* (status 500): setFlowData(data) and setLastUpdate run, data.features.length
\* throws a TypeError, then catch and finally
JsonResolveError(r) ==
    /\ r \in requests
    /\ r.stage = "json"
    /\ r.status = 500
    /\ flowData' = [kind |-> "error", gen |-> r.gen, features |-> <<>>]
    /\ lastUpdate' = now
    /\ CatchFinally(r)
    /\ UNCHANGED <<liveVars, now, mapReady, camera, moving, viewport, timeouts, timer,
                   stats>>

\* time passes, but never past a timer that is due
Tick(d) ==
    /\ now + d <= MaxTime
    /\ \A t \in timeouts : now + d <= t.due
    /\ now' = now + d
    /\ UNCHANGED <<liveVars, mapReady, camera, moving, viewport, timeouts, timer,
                   requests, flowData, loading, lastUpdate, stats, hist>>

DirectNext ==
    \/ MapMount
    \/ \E v \in Views : CameraMove(v)
    \/ handleMoveEnd
    \/ InitialFetchTimer
    \/ DebounceTimer
    \/ \E r \in requests : \E s \in {200, 500} : FetchResolve(r, s)
    \/ \E r \in requests : FetchReject(r)
    \/ \E r \in requests : JsonReject(r)
    \/ \E r \in requests : \E fs \in FeatureLists : JsonResolveData(r, fs)
    \/ \E r \in requests : JsonResolveError(r)
    \/ \E d \in ClockSteps : Tick(d)

SpecDirect == DirectInit /\ [][DirectNext]_vars

----------------------------------------------------------------------------
(* Direct-query mode: the status line and the properties *)

\* the header's status text: loading ? "Loading..." : `${stats.count} streams`
DirectStatusLine == IF loading THEN "Loading..." ELSE "streams"

\* a step in which a query cycle ends in the catch block
DirectCycleFails ==
    /\ hist'.lastEnd # hist.lastEnd
    /\ ~hist'.lastEnd.ok

\* a step in which the debounced callback issues a query
QueryIssued == hist'.issued # hist.issued

\* C1: a response to an older query never replaces the data set or the stats
\* of a newer query that are already displayed (the older result is
\* discarded).
C1_StaleResponseDiscarded ==
    [][/\ (flowData' # flowData /\ flowData'.kind = "FeatureCollection")
            => flowData'.gen >= flowData.gen
       /\ stats' # stats => stats'.gen >= stats.gen]_vars

C3_FailedCycleKeepsData ==
    [][DirectCycleFails => (flowData' = flowData /\ stats' = stats)]_vars

\* C6: when a fetch cycle ends in a transport or service failure, the status
\* line shows an error.
C6_FailureShowsError ==
    [][DirectCycleFails => DirectStatusLine' = "Error"]_vars

----------------------------------------------------------------------------
(* Overlay mode: src/unnamed/part_001 *)

\* the clock of the overlay model stops here
MaxLiveTime == 900000
\* "sourcedata" events that report the source loaded
MaxSourceEvents == 2
\* the clock of the overlay model advances in steps of this many ms
LiveClockSteps == {450000}

\* Refresh interval: 15 minutes
REFRESH_INTERVAL == 15 * 60 * 1000

\* entries per slice; 5000 in the source, scaled down so that the documents
\* below span several slices
CHUNK_SIZE == 2

\* The live-feed documents S3 may answer with.  `sites` is Object.entries of
\* the document's sites, which lists integer-like keys in ascending order.
\* Feature 50 is not in the tileset.
DocA == [hasSites |-> TRUE, reference_time |-> 1,
         sites |-> << [id |-> 50, flow |-> 2000], [id |-> 101, flow |-> 5],
                      [id |-> 102, flow |-> 1500] >>]
DocB == [hasSites |-> TRUE, reference_time |-> 2,
         sites |-> << [id |-> 101, flow |-> -1] >>]
DocC == [hasSites |-> TRUE, reference_time |-> 3,
         sites |-> << [id |-> 101, flow |-> 60], [id |-> 102, flow |-> 0],
                      [id |-> 103, flow |-> 7] >>]
\* a body that parses but has no `sites`
DocNoSites == [hasSites |-> FALSE, reference_time |-> 4, sites |-> <<>>]
\* a document with no entries, and one whose entries fill two whole slices
DocEmpty == [hasSites |-> TRUE, reference_time |-> 5, sites |-> <<>>]
DocD == [hasSites |-> TRUE, reference_time |-> 6,
         sites |-> << [id |-> 50, flow |-> 1], [id |-> 101, flow |-> 10],
                      [id |-> 102, flow |-> 50], [id |-> 103, flow |-> 200] >>]

LiveDocs == {DocA, DocB, DocC, DocNoSites, DocEmpty, DocD}

\* Categorize streamflow for styling
getFlowCategoryUpTo(cms) ==
    IF cms <= 1 THEN "very_low"
    ELSE IF cms <= 10 THEN "low"
    ELSE IF cms <= 50 THEN "moderate"
    ELSE IF cms <= 200 THEN "high"
    ELSE IF cms <= 1000 THEN "very_high"
    ELSE "extreme"

getFlowCategoryFiveBands(cms) ==
    IF cms < 1 THEN "very_low"
    ELSE IF cms < 10 THEN "low"
    ELSE IF cms < 50 THEN "moderate"
    ELSE IF cms < 200 THEN "high"
    ELSE "extreme"

\* getFlowCategory of the flow route (src/app/api/flow/route.ts)
getFlowCategoryOfRoute(cms) ==
    IF cms < 1 THEN "very_low"
    ELSE IF cms < 10 THEN "low"
    ELSE IF cms < 50 THEN "moderate"
    ELSE IF cms < 200 THEN "high"
    ELSE IF cms < 1000 THEN "very_high"
    ELSE "extreme"

\* getFlowCategory of the overlay component (src/unnamed/part_001)
getFlowCategory(cms) ==
    IF cms < 1 THEN "very_low"
    ELSE IF cms < 10 THEN "low"
    ELSE IF cms < 50 THEN "moderate"
    ELSE IF cms < 200 THEN "high"
    ELSE IF cms < 1000 THEN "very_high"
    ELSE "extreme"

Min(a, b) == IF a <= b THEN a ELSE b

\* One pass of the for loop's body on entry e, in cycle g.  st holds the
\* feature-state store and the closure's successCount and maxFlow.
\* map.setFeatureState throws for a feature that is not in the tileset and
\* the catch swallows it.
ApplyEntryCountingMisses(st, e, g) ==
    [fs |-> IF e.id \in Surface
            THEN [st.fs EXCEPT ![e.id] =
                     [flow |-> e.flow, category |-> getFlowCategory(e.flow),
                      gen |-> g]]
            ELSE st.fs,
     successCount |-> st.successCount + 1,
     maxFlow |-> IF e.flow > st.maxFlow THEN e.flow ELSE st.maxFlow]

ApplyEntryFlowFirst(st, e, g) ==
    IF e.id \in Surface
    THEN [fs |-> [st.fs EXCEPT ![e.id] =
                     [flow |-> e.flow, category |-> st.fs[e.id].category,
                      gen |-> g]],
          successCount |-> st.successCount + 1,
          maxFlow |-> IF e.flow > st.maxFlow THEN e.flow ELSE st.maxFlow]
    ELSE st

ApplyEntry(st, e, g) ==
    IF e.id \in Surface
    THEN [fs |-> [st.fs EXCEPT ![e.id] =
                     [flow |-> e.flow, category |-> getFlowCategory(e.flow),
                      gen |-> g]],
          successCount |-> st.successCount + 1,
          maxFlow |-> IF e.flow > st.maxFlow THEN e.flow ELSE st.maxFlow]
    ELSE st

RECURSIVE ApplyEntries(_, _, _, _, _)
\* for (let i = index; i < end; i++) over entries[from..to] (1-based)
ApplyEntries(st, entries, from, to, g) ==
    IF from > to THEN st
    ELSE ApplyEntries(ApplyEntry(st, entries[from], g), entries, from + 1, to, g)

\* the closure applyFeatureStates creates for cycle g
\* (`turns` counts the runs of processChunk; the program does not keep it)
NewApply(g, doc) ==
    [gen |-> g, doc |-> doc, index |-> 0, successCount |-> 0, maxFlow |-> 0,
     turns |-> 0]

\* processChunk, run once on closure a with the feature-state store fs:
\* the store and closure afterwards, and whether this was the final slice
processChunkOnce(fs, a) ==
    LET entries == a.doc.sites
        end == Min(a.index + CHUNK_SIZE, Len(entries))
        st == ApplyEntries([fs |-> fs, successCount |-> a.successCount,
                            maxFlow |-> a.maxFlow],
                           entries, a.index + 1, end, a.gen)
    IN  [fs |-> st.fs,
         a |-> [a EXCEPT !.index = end, !.successCount = st.successCount,
                         !.maxFlow = st.maxFlow, !.turns = @ + 1],
         final |-> TRUE]

processChunk(fs, a) ==
    LET entries == a.doc.sites
        end == Min(a.index + CHUNK_SIZE, Len(entries))
        st == ApplyEntries([fs |-> fs, successCount |-> a.successCount,
                            maxFlow |-> a.maxFlow],
                           entries, a.index + 1, end, a.gen)
    IN  [fs |-> st.fs,
         a |-> [a EXCEPT !.index = end, !.successCount = st.successCount,
                         !.maxFlow = st.maxFlow, !.turns = @ + 1],
         final |-> ~(end < Len(entries))]

\* setStats({ count: successCount, maxFlow })
PublishedStats(a) ==
    [count |-> a.successCount, maxFlow |-> a.maxFlow, gen |-> a.gen,
     doc |-> a.doc, turns |-> a.turns]

RECURSIVE RunCallbacks(_, _)
\* one animation frame: the queued callbacks run in order; a callback that
\* has slices left queues itself for the next frame
RunCallbacks(cbs, acc) ==
    IF cbs = <<>> THEN acc
    ELSE LET res == processChunk(acc.fs, Head(cbs))
         IN  RunCallbacks(Tail(cbs),
                 IF res.final
                 THEN [fs |-> res.fs, stats |-> PublishedStats(res.a),
                       next |-> acc.next, pubs |-> acc.pubs + 1]
                 ELSE [fs |-> res.fs, stats |-> acc.stats,
                       next |-> Append(acc.next, res.a), pubs |-> acc.pubs])

LiveInit ==
    /\ now = 0
    /\ mapReady = FALSE
    /\ camera = [box |-> 1, zoom |-> 9]
    /\ moving = FALSE
    /\ viewport = [box |-> 1, zoom |-> 9]
    /\ timeouts = {[id |-> 1, cb |-> "fetchLiveData", due |-> REFRESH_INTERVAL]}
    /\ timer = NoTimer
    /\ requests = {}
    /\ flowData = NoData
    /\ loading = FALSE
    /\ lastUpdate = NoTime
    /\ stats = [count |-> 0, maxFlow |-> 0, gen |-> 0, doc |-> DocNoSites,
                turns |-> 0]
    /\ source = "absent"
    /\ listening = FALSE
    /\ error = NoError
    /\ referenceTime = NoTime
    /\ featureState = [f \in Surface |-> NoState]
    /\ frames = <<>>
    /\ hist = [issued |-> 0,          \* fetch cycles started so far
               events |-> 0,          \* "sourcedata" loaded events so far
               newest |-> 0,          \* newest cycle that began to apply
               newestDoc |-> DocNoSites,  \* and its document
               readyAt |-> NoTime,    \* when the component first learnt that
                                      \* the source is loaded (T0)
               started |-> 0,         \* apply cycles that ran a first slice
               pubs |-> 0,            \* setStats calls so far
               lastEnd |-> [gen |-> 0, ok |-> TRUE, arrived |-> FALSE]]
               \* lastEnd: the last fetch cycle to end, and whether its
               \* document arrived (the body parsed)

\* the map instance is created
LiveMapMount ==
    /\ ~mapReady
    /\ mapReady' = TRUE
    /\ UNCHANGED <<queryVars, now, timeouts, requests, loading, lastUpdate,
                   stats, liveVars, hist>>

\* the <Source id="rivers"> is added to the map
SourceAdded ==
    /\ mapReady
    /\ source = "absent"
    /\ source' = "loading"
    /\ UNCHANGED <<queryVars, now, mapReady, timeouts, requests, loading,
                   lastUpdate, stats, listening, error, referenceTime,
                   featureState, frames, hist>>

\* the view changes and the source has tiles to load again
TilesReload ==
    /\ source = "loaded"
    /\ hist.events < MaxSourceEvents
    /\ source' = "loading"
    /\ UNCHANGED <<queryVars, now, mapReady, timeouts, requests, loading,
                   lastUpdate, stats, listening, error, referenceTime,
                   featureState, frames, hist>>

\* fetchLiveData up to its await: setLoading(true), setError(null), fetch;
\* src is the state of the source at that moment
fetchLiveData(src, h) ==
    /\ loading' = TRUE
    /\ error' = NoError
    /\ requests' = requests \cup
           {[gen |-> hist.issued + 1, stage |-> "fetch", src |-> src]}
    /\ hist' = [h EXCEPT !.issued = @ + 1]

\* a "sourcedata" event of 'rivers' with isSourceLoaded: the listener of
\* handleMapLoad, if registered, calls fetchLiveData
SourceData ==
    /\ source = "loading"
    /\ hist.events < MaxSourceEvents
    /\ source' = "loaded"
    /\ IF listening
       THEN fetchLiveData("loaded",
                [hist EXCEPT !.events = @ + 1,
                             !.readyAt = IF @ = NoTime THEN now ELSE @])
       ELSE /\ hist' = [hist EXCEPT !.events = @ + 1]
            /\ UNCHANGED <<loading, error, requests>>
    /\ UNCHANGED <<queryVars, now, mapReady, timeouts, lastUpdate, stats,
                   listening, referenceTime, featureState, frames>>

\* onLoad: register the listener, then checkAndFetch
handleMapLoad ==
    /\ mapReady
    /\ ~listening
    /\ listening' = TRUE
    /\ IF source = "loaded"
       THEN fetchLiveData(source,
                [hist EXCEPT !.readyAt = IF @ = NoTime THEN now ELSE @])
       ELSE UNCHANGED <<loading, error, requests, hist>>
    /\ UNCHANGED <<queryVars, now, mapReady, timeouts, lastUpdate, stats,
                   source, referenceTime, featureState, frames>>

\* setInterval(fetchLiveData, REFRESH_INTERVAL), armed by the mount effect,
\* comes due
IntervalTimer ==
    \E t \in Pending("fetchLiveData") :
        /\ t.due <= now
        /\ timeouts' = (timeouts \ {t}) \cup
                           {[t EXCEPT !.due = @ + REFRESH_INTERVAL]}
        /\ fetchLiveData(source, hist)
        /\ UNCHANGED <<queryVars, now, mapReady, lastUpdate, stats, source,
                       listening, referenceTime, featureState, frames>>

\* catch (err) { setError(msg) }
LiveCatchClearsStats(msg) ==
    /\ error' = msg
    /\ stats' = [count |-> 0, maxFlow |-> 0, gen |-> 0, doc |-> DocNoSites,
                 turns |-> 0]
    /\ UNCHANGED <<featureState, frames>>

LiveCatch(msg) ==
    /\ error' = msg
    /\ UNCHANGED <<stats, featureState, frames>>

\* finally { setLoading(false) }; the cycle of request r is over
LiveFinally(r) ==
    /\ loading' = FALSE
    /\ requests' = requests \ {r}

\* `await fetch(...)` rejects
LiveFetchReject(r) ==
    /\ r \in requests
    /\ r.stage = "fetch"
    /\ LiveCatch("Failed to fetch")
    /\ LiveFinally(r)
    /\ hist' = [hist EXCEPT !.lastEnd = [gen |-> r.gen, ok |-> FALSE, arrived |-> FALSE]]
    /\ UNCHANGED <<queryVars, now, mapReady, timeouts, lastUpdate, source,
                   listening, referenceTime>>

\* `await fetch(...)` resolves with !response.ok: throw new Error(`HTTP ...`)
LiveFetchNotOk(r) ==
    /\ r \in requests
    /\ r.stage = "fetch"
    /\ LiveCatch("HTTP 500")
    /\ LiveFinally(r)
    /\ hist' = [hist EXCEPT !.lastEnd = [gen |-> r.gen, ok |-> FALSE, arrived |-> FALSE]]
    /\ UNCHANGED <<queryVars, now, mapReady, timeouts, lastUpdate, source,
                   listening, referenceTime>>

\* `await fetch(...)` resolves with response.ok
LiveFetchOk(r) ==
    /\ r \in requests
    /\ r.stage = "fetch"
    /\ requests' = (requests \ {r}) \cup {[r EXCEPT !.stage = "json"]}
    /\ UNCHANGED <<queryVars, now, mapReady, timeouts, loading, lastUpdate,
                   stats, liveVars, hist>>

\* `await response.json()` rejects: the body is not JSON
LiveJsonReject(r) ==
    /\ r \in requests
    /\ r.stage = "json"
    /\ LiveCatch("Unexpected token")
    /\ LiveFinally(r)
    /\ hist' = [hist EXCEPT !.lastEnd = [gen |-> r.gen, ok |-> FALSE, arrived |-> FALSE]]
    /\ UNCHANGED <<queryVars, now, mapReady, timeouts, lastUpdate, source,
                   listening, referenceTime>>

\* applyFeatureStates(data) for the cycle of request r
applyFeatureStatesAnySource(r, doc) ==
    IF ~mapReady
    THEN \* no map, or "Source not ready": return
         /\ UNCHANGED <<error, stats, featureState, frames>>
         /\ hist' = [hist EXCEPT !.lastEnd = [gen |-> r.gen, ok |-> doc.hasSites,
                                              arrived |-> TRUE]]
    ELSE IF ~doc.hasSites
    THEN \* Object.entries(undefined) throws a TypeError
         /\ LiveCatch("Cannot convert undefined or null to object")
         /\ hist' = [hist EXCEPT !.lastEnd = [gen |-> r.gen, ok |-> FALSE,
                                              arrived |-> TRUE]]
    ELSE LET res == processChunk(featureState, NewApply(r.gen, doc))
         IN  /\ featureState' = res.fs
             /\ stats' = IF res.final THEN PublishedStats(res.a) ELSE stats
             /\ frames' = IF res.final THEN frames ELSE Append(frames, res.a)
             /\ error' = error
             /\ hist' = [hist EXCEPT
                            !.lastEnd = [gen |-> r.gen, ok |-> TRUE,
                                         arrived |-> TRUE],
                            !.started = @ + 1,
                            !.pubs = IF res.final THEN @ + 1 ELSE @,
                            !.newest = IF r.gen > @ THEN r.gen ELSE @,
                            !.newestDoc = IF r.gen > hist.newest THEN doc ELSE @]

applyFeatureStates(r, doc) ==
    IF ~mapReady \/ source = "absent"
    THEN \* no map, or "Source not ready": return
         /\ UNCHANGED <<error, stats, featureState, frames>>
         /\ hist' = [hist EXCEPT !.lastEnd = [gen |-> r.gen, ok |-> doc.hasSites,
                                              arrived |-> TRUE]]
    ELSE IF ~doc.hasSites
    THEN \* Object.entries(undefined) throws a TypeError
         /\ LiveCatch("Cannot convert undefined or null to object")
         /\ hist' = [hist EXCEPT !.lastEnd = [gen |-> r.gen, ok |-> FALSE,
                                              arrived |-> TRUE]]
    ELSE LET res == processChunk(featureState, NewApply(r.gen, doc))
         IN  /\ featureState' = res.fs
             /\ stats' = IF res.final THEN PublishedStats(res.a) ELSE stats
             /\ frames' = IF res.final THEN frames ELSE Append(frames, res.a)
             /\ error' = error
             /\ hist' = [hist EXCEPT
                            !.lastEnd = [gen |-> r.gen, ok |-> TRUE,
                                         arrived |-> TRUE],
                            !.started = @ + 1,
                            !.pubs = IF res.final THEN @ + 1 ELSE @,
                            !.newest = IF r.gen > @ THEN r.gen ELSE @,
                            !.newestDoc = IF r.gen > hist.newest THEN doc ELSE @]

\* `await response.json()` resolves with a document: setLastUpdate,
\* setReferenceTime, applyFeatureStates and its first slice, finally
LiveJsonResolve(r, doc) ==
    /\ r \in requests
    /\ r.stage = "json"
    /\ lastUpdate' = now
    /\ referenceTime' = doc.reference_time
    /\ applyFeatureStates(r, doc)
    /\ LiveFinally(r)
    /\ UNCHANGED <<queryVars, now, mapReady, timeouts, source, listening>>

\* the browser runs the animation-frame callbacks
AnimationFrame ==
    /\ frames # <<>>
    /\ LET res == RunCallbacks(frames,
                      [fs |-> featureState, stats |-> stats, next |-> <<>>,
                       pubs |-> 0])
       IN  /\ featureState' = res.fs
           /\ stats' = res.stats
           /\ frames' = res.next
           /\ hist' = [hist EXCEPT !.pubs = @ + res.pubs]
    /\ UNCHANGED <<queryVars, now, mapReady, timeouts, requests, loading,
                   lastUpdate, source, listening, error, referenceTime>>

\* time passes, but never past a timer that is due
LiveTick(d) ==
    /\ now + d <= MaxLiveTime
    /\ \A t \in timeouts : now + d <= t.due
    /\ now' = now + d
    /\ UNCHANGED <<queryVars, mapReady, timeouts, requests, loading,
                   lastUpdate, stats, liveVars, hist>>

LiveNext ==
    \/ LiveMapMount
    \/ SourceAdded
    \/ TilesReload
    \/ SourceData
    \/ handleMapLoad
    \/ IntervalTimer
    \/ \E r \in requests : LiveFetchReject(r)
    \/ \E r \in requests : LiveFetchNotOk(r)
    \/ \E r \in requests : LiveFetchOk(r)
    \/ \E r \in requests : LiveJsonReject(r)
    \/ \E r \in requests : \E doc \in LiveDocs : LiveJsonResolve(r, doc)
    \/ AnimationFrame
    \/ \E d \in LiveClockSteps : LiveTick(d)

SpecOverlay == LiveInit /\ [][LiveNext]_vars

----------------------------------------------------------------------------
(* Overlay mode: the properties *)

\* a step in which a fetchLiveData cycle ends in failure
LiveCycleFails ==
    /\ hist'.lastEnd # hist.lastEnd
    /\ ~hist'.lastEnd.ok

\* the positions of doc's entries whose feature is in the tileset
Present(doc) == {i \in 1..Len(doc.sites) : doc.sites[i].id \in Surface}

\* the largest element of a non-empty set of numbers
SetMax(S) == CHOOSE x \in S : \A y \in S : y <= x

\* the maximum streamflow among the entries of doc at the positions P
MaxFlowAt(doc, P) == SetMax({doc.sites[i].flow : i \in P})

\* C4: at most one apply cycle has slices pending at any time (a new cycle
\* makes the earlier one abandon its slice loop).
C4_OneApplyInFlight == Len(frames) <= 1

\* C5: results are applied in the order the cycles started: stats are never
\* overwritten by a cycle older than the one they show, and once every
\* cycle has finished, stats and the state of every feature the newest
\* applied cycle wrote are that cycle's.
C5_AppliedInOrder ==
    /\ [](  (requests = {} /\ frames = <<>> /\ hist.newest > 0)
         => /\ stats.gen = hist.newest
            /\ \A i \in Present(hist.newestDoc) :
                   featureState[hist.newestDoc.sites[i].id].gen = hist.newest)
    /\ [][stats'.gen >= stats.gen]_vars

\* C7: a fetchLiveData cycle that fails (fetch rejects, response not ok,
\* body not JSON, body without sites) makes no setFeatureState call, queues
\* no slice and leaves stats unchanged.
C7_FailedCycleKeepsRenderState ==
    [][LiveCycleFails
         => (featureState' = featureState /\ stats' = stats
             /\ frames' = frames)]_vars

\* C7 witness: a cycle failed after an earlier cycle published its stats and
\* feature states, which are still in place
C7_Witness ==
    /\ ~hist.lastEnd.ok
    /\ error # NoError
    /\ stats.gen > 0
    /\ hist.lastEnd.gen > stats.gen
    /\ \E f \in Surface : featureState[f].gen = stats.gen

\* C8: the stats an apply over M entries publishes have count <= M, count <=
\* the number of entries whose feature is in the tileset, and maxFlow equal
\* to the maximum streamflow among the applied entries, or 0 if none.
C8_StatsOfApply ==
    stats.gen > 0 =>
        /\ stats.count <= Len(stats.doc.sites)
        /\ stats.count <= Cardinality(Present(stats.doc))
        /\ stats.maxFlow = IF Present(stats.doc) = {} THEN 0
                           ELSE MaxFlowAt(stats.doc, Present(stats.doc))

\* C9: an entry whose feature is not in the tileset is skipped and nothing
\* else: after i entries a slice loop has counted exactly the entries among
\* them whose feature is present, its maxFlow is the largest positive flow
\* among those alone, the published stats count every present entry of the
\* document (so the entries and slices after a miss were processed), and no
\* step that applies entries or publishes stats touches the error status.
C9_MissSkipped ==
    /\ [](/\ \A k \in 1..Len(frames) :
                LET a == frames[k]
                    P == {i \in Present(a.doc) : i <= a.index}
                IN  /\ a.successCount = Cardinality(P)
                    /\ a.maxFlow = IF P = {} THEN 0
                                   ELSE Max(0, MaxFlowAt(a.doc, P))
          /\ stats.gen > 0 =>
                /\ stats.count = Cardinality(Present(stats.doc))
                /\ stats.maxFlow = IF Present(stats.doc) = {} THEN 0
                                   ELSE Max(0, MaxFlowAt(stats.doc,
                                                         Present(stats.doc))))
    /\ [][(featureState' # featureState \/ stats' # stats \/ frames' # frames)
            => error' = error]_vars

\* C9 witness: a document whose first slice holds an absent feature was
\* applied to the end: both present entries count, the one in the later
\* slice was written, and no error is shown
C9_Witness ==
    /\ stats.gen > 0
    /\ stats.doc = DocA
    /\ stats.count = 2
    /\ stats.maxFlow = 1500
    /\ featureState[102].gen = stats.gen
    /\ error = NoError

\* C10: no live-feed fetch is issued while the 'rivers' source is absent or
\* not loaded.
C10_NoFetchBeforeSourceReady ==
    \A r \in requests : r.src = "loaded"

\* C11: the first live-feed fetch is issued at the moment T0 at which the
\* component learns that the source is loaded, and every fetch of the
\* interval timer after T0 is issued at T0 + k * REFRESH_INTERVAL, k >= 1.
C11_SchedulerTicksFromReady ==
    [][/\ (hist.readyAt = NoTime /\ hist'.readyAt # NoTime)
            => (hist'.readyAt = now /\ hist'.issued = hist.issued + 1)
       /\ (timeouts' # timeouts /\ hist.readyAt # NoTime)
            => /\ now > hist.readyAt
               /\ (now - hist.readyAt) % REFRESH_INTERVAL = 0]_vars

----------------------------------------------------------------------------
(* Both components: a page shows one of the two *)

\* the history record of the direct-query component is the one with `settles`
IsDirect == "settles" \in DOMAIN hist

BothInit == DirectInit \/ LiveInit

BothNext ==
    \/ (IsDirect /\ DirectNext)
    \/ (~IsDirect /\ LiveNext)

SpecBoth == BothInit /\ [][BothNext]_vars

\* the document a step of LiveJsonResolve received (documents differ in
\* their reference_time, which the step stores)
ReceivedDoc == CHOOSE d \in LiveDocs : d.reference_time = referenceTime'

----------------------------------------------------------------------------
(* The query plan: fetchFlowDataInner's URLSearchParams, as the flow route
   reads them back *)

\* the largest zoom level of the map
MaxZoom == 22

\* the visible rectangles and zoom levels of the plan model (whole degrees
\* and whole zoom levels)
Lons == {-180, -73, 0, 180}
Lats == {-90, 0, 44, 90}
PlanViews ==
    {v \in [west : Lons, south : Lats, east : Lons, north : Lats,
            zoom : 0..MaxZoom] : v.west < v.east /\ v.south < v.north}

DigitChars == <<"0", "1", "2", "3", "4", "5", "6", "7", "8", "9">>

RECURSIVE DigitsOf(_)
\* the decimal digits of n >= 0, most significant first
DigitsOf(n) ==
    IF n < 10 THEN <<DigitChars[n + 1]>>
    ELSE Append(DigitsOf(n \div 10), DigitChars[(n % 10) + 1])

\* Number.prototype.toString() of an integer: a string, as its characters
NumToString(n) == IF n < 0 THEN <<"-">> \o DigitsOf(-n) ELSE DigitsOf(n)

RECURSIVE ParseDigits(_, _)
\* the value of a run of digits, acc being the value read so far
ParseDigits(cs, acc) ==
    IF cs = <<>> THEN acc
    ELSE ParseDigits(Tail(cs),
             10 * acc + ((CHOOSE i \in 1..10 : DigitChars[i] = Head(cs)) - 1))

\* parseFloat / parseInt of a string that NumToString wrote
ParseNum(cs) ==
    IF Head(cs) = "-" THEN 0 - ParseDigits(Tail(cs), 0) ELSE ParseDigits(cs, 0)

\* searchParams.get(name) || dflt : a missing or empty parameter gives dflt
GetOr(params, name, dflt) ==
    IF name \in DOMAIN params /\ params[name] # <<>>
    THEN params[name] ELSE NumToString(dflt)

\* new URLSearchParams({west, south, east, north, limit}) for bounds and zoom
URLSearchParams(cam) ==
    [west |-> NumToString(cam.west), south |-> NumToString(cam.south),
     east |-> NumToString(cam.east), north |-> NumToString(cam.north),
     limit |-> NumToString(LimitForZoom(cam.zoom))]

\* the route's reading of the query string
RouteArgs(params) ==
    [west |-> ParseNum(GetOr(params, "west", -180)),
     south |-> ParseNum(GetOr(params, "south", -90)),
     east |-> ParseNum(GetOr(params, "east", 180)),
     north |-> ParseNum(GetOr(params, "north", 90)),
     limit |-> ParseNum(GetOr(params, "limit", 5000))]

\* the state the plan and service models leave at its initial value
restVars == <<now, moving, viewport, timeouts, timer, lastUpdate, stats,
              liveVars>>

RestInit ==
    /\ now = 0
    /\ moving = FALSE
    /\ viewport = [box |-> 1, zoom |-> 9]
    /\ timeouts = {}
    /\ timer = NoTimer
    /\ lastUpdate = NoTime
    /\ stats = [count |-> 0, maxFlow |-> 0, gen |-> 0]
    /\ source = "absent"
    /\ listening = FALSE
    /\ error = NoError
    /\ referenceTime = NoTime
    /\ featureState = [f \in Surface |-> NoState]
    /\ frames = <<>>

PlanInit ==
    /\ RestInit
    /\ mapReady = TRUE
    /\ camera \in PlanViews
    /\ requests = {}
    /\ flowData = NoData
    /\ loading = FALSE
    /\ hist = [args |-> [west |-> 0, south |-> 0, east |-> 0, north |-> 0,
                         limit |-> 0]]

\* fetchFlowDataInner up to its await, with the bounds and zoom of the map
PlanQuery ==
    /\ mapReady
    /\ requests = {}
    /\ loading' = TRUE
    /\ requests' = {[gen |-> 1, stage |-> "fetch",
                     url |-> URLSearchParams(camera)]}
    /\ UNCHANGED <<restVars, mapReady, camera, flowData, hist>>

\* the route receives the request and reads its query string
RouteReadsQuery ==
    \E r \in requests :
        /\ r.stage = "fetch"
        /\ requests' = {[r EXCEPT !.stage = "route"]}
        /\ hist' = [hist EXCEPT !.args = RouteArgs(r.url)]
        /\ UNCHANGED <<restVars, mapReady, camera, flowData, loading>>

PlanNext == PlanQuery \/ RouteReadsQuery

SpecPlan == PlanInit /\ [][PlanNext]_vars

\* the zoom/limit table
TableLimit(zoom) ==
    CASE zoom < 6 -> 1000
      [] zoom >= 6 /\ zoom < 8 -> 2000
      [] zoom >= 8 /\ zoom < 10 -> 5000
      [] zoom >= 10 -> 8000

\* C13: for every viewport, the issued query's limit is the table value for
\* the viewport's zoom, and its west/south/east/north denote the viewport's
\* rectangle; the route reads the same five numbers back.
C13_PlanMatchesTable ==
    /\ \A r \in requests :
          /\ r.url.limit = NumToString(TableLimit(camera.zoom))
          /\ ParseNum(r.url.west) = camera.west
          /\ ParseNum(r.url.south) = camera.south
          /\ ParseNum(r.url.east) = camera.east
          /\ ParseNum(r.url.north) = camera.north
    /\ (\E r \in requests : r.stage = "route")
          => hist.args = [west |-> camera.west, south |-> camera.south,
                          east |-> camera.east, north |-> camera.north,
                          limit |-> TableLimit(camera.zoom)]

\* C13 witness: a query was issued at the breakpoint zoom 8 for a rectangle
\* with a negative and a zero coordinate, and the route has read it
C13_Witness ==
    /\ camera.zoom = 8
    /\ camera.west = -73
    /\ camera.south = 0
    /\ \E r \in requests :
          /\ r.stage = "route"
          /\ r.url.limit = <<"5", "0", "0", "0">>
          /\ r.url.west = <<"-", "7", "3">>
    /\ hist.args.limit = 5000

----------------------------------------------------------------------------
(* The two categorizers, applied to a pair of flow values *)

\* the flow values of the categorizer model, in whole m3/s, reach this far
\* below 0 and above the last threshold
FlowMargin == 3

Flows == (0 - FlowMargin)..(1000 + FlowMargin)

\* second flow values to compare the first with
ProbeFlows == {-3, 0, 1, 9, 10, 49, 50, 199, 200, 999, 1000, 1001, 1003}

NoCategory == "<none>"

CategorizeInit ==
    /\ RestInit
    /\ mapReady = FALSE
    /\ camera = [box |-> 1, zoom |-> 9]
    /\ requests = {}
    /\ flowData = NoData
    /\ loading = FALSE
    /\ \E f1 \in Flows : \E f2 \in ProbeFlows \cup {f1 + 1} :
          hist = [f1 |-> f1, f2 |-> f2,
                  route1 |-> NoCategory, route2 |-> NoCategory,
                  comp1 |-> NoCategory, comp2 |-> NoCategory]

\* the route tags the two rows: flow_category: getFlowCategory(row.streamflow_cms)
RouteCategorizes ==
    /\ hist.route1 = NoCategory
    /\ hist' = [hist EXCEPT !.route1 = getFlowCategoryOfRoute(hist.f1),
                            !.route2 = getFlowCategoryOfRoute(hist.f2)]
    /\ UNCHANGED <<restVars, mapReady, camera, requests, flowData, loading>>

\* the overlay component styles the two sites: category: getFlowCategory(flow)
ComponentCategorizes ==
    /\ hist.comp1 = NoCategory
    /\ hist' = [hist EXCEPT !.comp1 = getFlowCategory(hist.f1),
                            !.comp2 = getFlowCategory(hist.f2)]
    /\ UNCHANGED <<restVars, mapReady, camera, requests, flowData, loading>>

CategorizeNext == RouteCategorizes \/ ComponentCategorizes

SpecCategorize == CategorizeInit /\ [][CategorizeNext]_vars

\* the six categories in order of severity
Categories ==
    <<"very_low", "low", "moderate", "high", "very_high", "extreme">>

Rank(c) == CHOOSE i \in 1..Len(Categories) : Categories[i] = c

Thresholds == {1, 10, 50, 200, 1000}

\* categories c1 of f1 and c2 of f2 as a total, order-preserving step function
OrderPreserving(f1, c1, f2, c2) ==
    /\ \E i \in 1..Len(Categories) : Categories[i] = c1
    /\ \E i \in 1..Len(Categories) : Categories[i] = c2
    /\ f1 <= f2 => Rank(c1) <= Rank(c2)
    /\ f2 <= f1 => Rank(c2) <= Rank(c1)
    /\ (f2 = f1 + 1 /\ c1 # c2) => f2 \in Thresholds
    /\ f1 <= 0 => c1 = "very_low"
    /\ f2 <= 0 => c2 = "very_low"

\* C14: each categorizer is total and order-preserving: its result is one of
\* the six categories, f1 <= f2 implies category(f1) <= category(f2), the
\* category of f and of f + 1 differ only when f + 1 is one of 1, 10, 50,
\* 200, 1000, and every f <= 0 is very_low.
C14_CategorizeOrderPreserving ==
    /\ hist.route1 # NoCategory
          => OrderPreserving(hist.f1, hist.route1, hist.f2, hist.route2)
    /\ hist.comp1 # NoCategory
          => OrderPreserving(hist.f1, hist.comp1, hist.f2, hist.comp2)

\* C14 witness: both categorizers ran on the two sides of a threshold
C14_Witness ==
    /\ hist.f1 = 9
    /\ hist.f2 = 10
    /\ hist.route1 = "low"
    /\ hist.route2 = "moderate"
    /\ hist.comp1 = "low"
    /\ hist.comp2 = "moderate"

\* C15: the route's categorizer and the overlay component's categorizer
\* return the same category for every flow value.
C15_CategorizersAgree ==
    (hist.route1 # NoCategory /\ hist.comp1 # NoCategory)
        => (hist.route1 = hist.comp1 /\ hist.route2 = hist.comp2)

\* C15 witness: both categorizers ran on a flow in the fifth band and on the
\* last threshold
C15_Witness ==
    /\ hist.f1 = 500
    /\ hist.f2 = 1000
    /\ hist.route1 = "very_high"
    /\ hist.comp1 = "very_high"
    /\ hist.route2 = "extreme"
    /\ hist.comp2 = "extreme"

\* the flow f lies in the documented range of category c (README table and
\* legend labels), the bounds of a range "a-b" included
InDocumentedRange(f, c) ==
    CASE c = "extreme" -> f > 1000
      [] c = "very_high" -> 200 <= f /\ f <= 1000
      [] c = "high" -> 50 <= f /\ f <= 200
      [] c = "moderate" -> 10 <= f /\ f <= 50
      [] c = "low" -> 1 <= f /\ f <= 10
      [] c = "very_low" -> f < 1
      [] OTHER -> FALSE

\* C16: the category of every flow value is one whose documented range
\* holds the value; a flow is Extreme exactly when it is > 1000 and Very Low
\* exactly when it is < 1.
C16_DocumentedRanges ==
    /\ hist.route1 # NoCategory
          => /\ InDocumentedRange(hist.f1, hist.route1)
             /\ hist.route1 = "extreme" <=> hist.f1 > 1000
             /\ hist.route1 = "very_low" <=> hist.f1 < 1
    /\ hist.comp1 # NoCategory
          => /\ InDocumentedRange(hist.f1, hist.comp1)
             /\ hist.comp1 = "extreme" <=> hist.f1 > 1000
             /\ hist.comp1 = "very_low" <=> hist.f1 < 1

----------------------------------------------------------------------------
(* The flow route: GET /api/flow (src/app/api/flow/route.ts) *)

\* the largest `limit` parameter a request of the route model carries
MaxLimit == 2

\* river_edges JOIN nwm_velocity: the rows the database may hold, each
\* river's geometry reduced to one point
RiverRows ==
    {[comid |-> 1, streamflow_cms |-> 150, lon |-> -73, lat |-> 44],
     [comid |-> 2, streamflow_cms |-> 150, lon |-> -72, lat |-> 45],
     [comid |-> 3, streamflow_cms |-> 0, lon |-> -73, lat |-> 45],
     [comid |-> 4, streamflow_cms |-> 1500, lon |-> -100, lat |-> 40],
     [comid |-> 5, streamflow_cms |-> 7, lon |-> -72, lat |-> 44]}

\* the query strings a request may carry: a bounding box or none, a limit
\* or none
BoxParams ==
    [west |-> NumToString(-73), south |-> NumToString(44),
     east |-> NumToString(-72), north |-> NumToString(45)]

RouteQueries ==
    {BoxParams, << >>}
      \cup {[limit |-> NumToString(l)] : l \in 0..MaxLimit}
      \cup {BoxParams @@ [limit |-> NumToString(l)] : l \in 0..MaxLimit}

\* ST_Intersects(r.geom, ST_MakeEnvelope(west, south, east, north, 4326))
ST_Intersects(row, a) ==
    /\ a.west <= row.lon /\ row.lon <= a.east
    /\ a.south <= row.lat /\ row.lat <= a.north

\* WHERE ST_Intersects(...) AND n.streamflow_cms > 0
Where(table, a) ==
    {row \in table : ST_Intersects(row, a) /\ row.streamflow_cms > 0}

\* the orders ORDER BY n.streamflow_cms may produce (rows of equal
\* streamflow come in any order)
OrderByFlowAsc(S) ==
    {q \in [1..Cardinality(S) -> S] :
        /\ \A i, j \in 1..Cardinality(S) : i # j => q[i] # q[j]
        /\ \A i, j \in 1..Cardinality(S) :
              i < j => q[i].streamflow_cms <= q[j].streamflow_cms}

OrderByFlowDesc(S) ==
    {q \in [1..Cardinality(S) -> S] :
        /\ \A i, j \in 1..Cardinality(S) : i # j => q[i] # q[j]
        /\ \A i, j \in 1..Cardinality(S) :
              i < j => q[i].streamflow_cms >= q[j].streamflow_cms}

\* LIMIT n
Limit(q, n) == SubSeq(q, 1, Min(n, Len(q)))

\* result.rows.map(row => Feature) of the GeoJSON FeatureCollection
FeatureOf(row) ==
    [comid |-> row.comid, streamflow_cms |-> row.streamflow_cms,
     flow_category |-> getFlowCategoryOfRoute(row.streamflow_cms)]

RouteInit ==
    /\ RestInit
    /\ mapReady = FALSE
    /\ camera = [box |-> 1, zoom |-> 9]
    /\ flowData = NoData
    /\ loading = FALSE
    /\ \E q \in RouteQueries :
          requests = {[gen |-> 1, stage |-> "route", url |-> q]}
    /\ \E table \in SUBSET RiverRows :
          hist = [table |-> table, status |-> 0, features |-> <<>>]

\* GET: the query succeeds and the route answers with the FeatureCollection
RouteGET ==
    \E r \in requests :
        /\ r.stage = "route"
        /\ LET a == RouteArgs(r.url)
           IN  \E q \in OrderByFlowDesc(Where(hist.table, a)) :
                   LET rows == Limit(q, a.limit)
                   IN  hist' = [hist EXCEPT
                                   !.status = 200,
                                   !.features =
                                       [i \in 1..Len(rows) |-> FeatureOf(rows[i])]]
        /\ requests' = {[r EXCEPT !.stage = "json"]}
        /\ UNCHANGED <<restVars, mapReady, camera, flowData, loading>>

\* GET: pool.query rejects; the route answers 500 {error}
RouteGETFails ==
    \E r \in requests :
        /\ r.stage = "route"
        /\ hist' = [hist EXCEPT !.status = 500]
        /\ requests' = {[r EXCEPT !.stage = "json"]}
        /\ UNCHANGED <<restVars, mapReady, camera, flowData, loading>>

RouteNext == RouteGET \/ RouteGETFails

SpecRoute == RouteInit /\ [][RouteNext]_vars

\* the category of flow f by the thresholds
CategoryOf(f) == Categories[1 + Cardinality({t \in Thresholds : f >= t})]

\* the bounding box and limit a query string asks for
AskedFor(url) ==
    LET get(name, dflt) == IF name \in DOMAIN url THEN ParseNum(url[name])
                           ELSE dflt
    IN  [west |-> get("west", -180), south |-> get("south", -90),
         east |-> get("east", 180), north |-> get("north", 90),
         limit |-> get("limit", 5000)]

\* the rows of the table inside the box b whose streamflow is positive
Eligible(table, b) ==
    {row \in table : /\ row.streamflow_cms > 0
                     /\ row.lon >= b.west /\ row.lon <= b.east
                     /\ row.lat >= b.south /\ row.lat <= b.north}

\* C17: for every bounding box and limit L, a successful answer of the
\* route holds min(L, eligible rows) features, each an eligible row of the
\* table (inside the box, streamflow_cms > 0) and no row twice, in
\* descending streamflow_cms order, each with flow_category the category of
\* its streamflow_cms; every eligible row left out has a streamflow no
\* larger than any returned one.
C17_RouteAnswer ==
    \A r \in requests :
        hist.status = 200 =>
            LET b == AskedFor(r.url)
                E == Eligible(hist.table, b)
                fs == hist.features
                ids == {fs[i].comid : i \in 1..Len(fs)}
            IN  /\ Len(fs) <= b.limit
                /\ Len(fs) = Min(b.limit, Cardinality(E))
                /\ Cardinality(ids) = Len(fs)
                /\ \A i \in 1..Len(fs) :
                      /\ fs[i].streamflow_cms > 0
                      /\ \E row \in E :
                            /\ row.comid = fs[i].comid
                            /\ row.streamflow_cms = fs[i].streamflow_cms
                      /\ fs[i].flow_category = CategoryOf(fs[i].streamflow_cms)
                /\ \A i, j \in 1..Len(fs) :
                      i < j => fs[i].streamflow_cms >= fs[j].streamflow_cms
                /\ \A row \in E :
                      row.comid \notin ids =>
                          \A i \in 1..Len(fs) :
                              row.streamflow_cms <= fs[i].streamflow_cms

\* C17 witness: four rows were eligible and the limit was 2: the answer is
\* the two largest, and a row of the table with streamflow 0 is not in it
C17_Witness ==
    /\ hist.status = 200
    /\ hist.table = RiverRows
    /\ \E r \in requests : r.url = [limit |-> <<"2">>]
    /\ Len(hist.features) = 2
    /\ hist.features[1].streamflow_cms = 1500
    /\ hist.features[2].streamflow_cms = 150

----------------------------------------------------------------------------
(* Direct-query mode: the stats of the displayed data set *)

\* C18: whenever a FeatureCollection is displayed, stats.count is the number
\* of its features and stats.maxFlow the largest streamflow among them, a
\* collection of zero features included (count 0).
C18_StatsMatchDisplayedData ==
    (IsDirect /\ flowData.kind = "FeatureCollection") =>
        /\ stats.count = Len(flowData.features)
        /\ flowData.features # <<>> =>
              stats.maxFlow =
                  SetMax({flowData.features[i] :
                              i \in 1..Len(flowData.features)})

----------------------------------------------------------------------------
(* Overlay mode: the slices of an apply cycle *)

\* the turns an apply cycle over m entries takes
TurnsFor(m) ==
    IF m = 0 THEN 1 ELSE (m + CHUNK_SIZE - 1) \div CHUNK_SIZE

\* C19: an apply cycle processes its entries in contiguous slices of
\* CHUNK_SIZE entries (the last one shorter), one slice per turn: a cycle
\* with slices pending has run t >= 1 turns, has processed exactly the first
\* t * CHUNK_SIZE entries and has entries left; a turn of a pending cycle
\* either advances it by one slice and queues it again, or is its final
\* slice and publishes the stats; every cycle that ran its first slice is
\* either pending or has published its stats, once, having processed all M
\* entries in ceil(M / CHUNK_SIZE) turns (one turn when M = 0).
C19_SlicedApply ==
    /\ [](/\ \A k \in 1..Len(frames) :
                LET a == frames[k]
                IN  /\ a.turns >= 1
                    /\ a.index = a.turns * CHUNK_SIZE
                    /\ a.index < Len(a.doc.sites)
                    /\ \A j \in 1..Len(frames) :
                           j # k => frames[j].gen # a.gen
          /\ hist.pubs + Len(frames) = hist.started
          /\ stats.gen > 0 => stats.turns = TurnsFor(Len(stats.doc.sites)))
    /\ [][/\ hist'.pubs # hist.pubs => stats'.gen > 0
          /\ \A j \in 1..Len(frames) :
                LET a == frames[j]
                    S == {k \in 1..Len(frames') : frames'[k].gen = a.gen}
                IN  \/ \E k \in S : frames'[k] = a
                    \/ \E k \in S : /\ frames'[k].turns = a.turns + 1
                                    /\ frames'[k].index = a.index + CHUNK_SIZE
                    \/ /\ S = {}
                       /\ a.index + CHUNK_SIZE >= Len(a.doc.sites)
                       /\ hist'.pubs > hist.pubs]_vars

\* C19 witness: a document of four entries was applied in two full slices
\* after an earlier cycle, and every cycle that started has published
C19_Witness ==
    /\ stats.gen > 0
    /\ stats.doc = DocD
    /\ stats.turns = 2
    /\ hist.started >= 2
    /\ hist.pubs = hist.started
    /\ frames = <<>>

----------------------------------------------------------------------------
(* Overlay mode: the state of one feature *)

\* C20: in every state, between the slices of a batch and while several
\* apply cycles interleave included, each feature that has state carries the
\* category of its own flow value.
C20_FeatureStateConsistent ==
    \A f \in Surface :
        featureState[f] # NoState
            => featureState[f].category = CategoryOf(featureState[f].flow)

\* C20 witness: two apply cycles have slices pending, and the features
\* written so far come from different cycles
C20_Witness ==
    /\ Len(frames) >= 2
    /\ \E f, g \in Surface :
          /\ featureState[f] # NoState
          /\ featureState[g] # NoState
          /\ featureState[f].gen # featureState[g].gen

----------------------------------------------------------------------------
(* Both components: the loading flag *)

\* C21: in either mode, loading is true whenever at least one issued fetch
\* has not completed yet (so it goes false only when none is outstanding),
\* overlapping fetches included.
C21_LoadingTracksInFlight == requests # {} => loading

----------------------------------------------------------------------------
(* Overlay mode: a document that arrives before the source exists *)

\* a step in which the document of a fetch cycle arrives
DocumentArrives ==
    /\ hist'.lastEnd # hist.lastEnd
    /\ hist'.lastEnd.arrived

\* C22: when a live-feed document arrives while the 'rivers' source does
\* not exist, the step makes no setFeatureState call, queues no slice and
\* leaves stats and the error status alone, while lastUpdate and
\* referenceTime are updated and loading is cleared; the step neither
\* issues a fetch nor arms a timer, and a fetch is only ever issued by the
\* interval timer, a "sourcedata" event or the map's load handler.
C22_DroppedWithoutSource ==
    [][/\ (DocumentArrives /\ source = "absent")
            => /\ featureState' = featureState
               /\ frames' = frames
               /\ stats' = stats
               /\ error' = error
               /\ lastUpdate' = now
               /\ referenceTime' \in {d.reference_time : d \in LiveDocs}
               /\ loading' = FALSE
               /\ hist'.issued = hist.issued
               /\ requests' \subseteq requests
               /\ timeouts' = timeouts
       /\ hist'.issued # hist.issued
            => \/ timeouts' # timeouts
               \/ hist'.events # hist.events
               \/ listening' # listening]_vars

\* C22 witness: a document with sites arrived while the source did not
\* exist; nothing was applied and no error is shown
C22_Witness ==
    /\ source = "absent"
    /\ hist.lastEnd.arrived
    /\ hist.lastEnd.ok
    /\ lastUpdate = now
    /\ referenceTime = DocA.reference_time
    /\ ~loading
    /\ error = NoError
    /\ stats.gen = 0
    /\ \A f \in Surface : featureState[f] = NoState

====
